---- MODULE Spec2Model ----
(***************************************************************************)
(* A model of dialplan_validator.c: the line-oriented syntax validator for *)
(* Asterisk dialplan files.  A C string is a sequence of one-character     *)
(* strings; a buffer that the code cuts in place holds the marker NUL      *)
(* where the code writes '\0'.  One action of the driver models one        *)
(* iteration of the fgets loop of validate_dialplan, parsers included.     *)
(***************************************************************************)
EXTENDS Integers, Sequences, FiniteSets, TLC

VARIABLES
    file,             \* the input: its physical lines, each newline-terminated
    li,               \* index in file of the physical line fgets reads next
    off,              \* characters of file[li] that fgets already consumed
    pc,               \* "open", "scan", "done" or "ioerror"
    errors,           \* state.errors
    warnings,         \* state.warnings
    line_num,         \* state.line_num
    current_context,  \* state.current_context
    in_context,       \* in_context of validate_dialplan
    diags,            \* what was written to stderr, in order
    summary,          \* what was written to stdout: "none", "valid", "counts"
    exit_status,      \* validate_dialplan's return value, -1 while running
    arg,              \* the text given to a checker that is called on its own
    ret,              \* that checker's return value, -1 before it returns
    run,              \* 1 in the first validation of file, 2 in a second one
    first             \* what the first validation of file ended with

vars == <<file, li, off, pc, errors, warnings, line_num,
          current_context, in_context, diags, summary, exit_status,
          arg, ret, run, first>>

\* what the driver never touches
aside == <<arg, ret, run, first>>

(***************************************************************************)
(* Program constants.                                                      *)
(***************************************************************************)
MAX_LINE == 4096
MAX_VAR_NAME == 80

(***************************************************************************)
(* Characters and <ctype.h>, <string.h>.                                   *)
(***************************************************************************)
NUL == "NUL"
NL == "\n"

isspace(c) == c \in {" ", "\t", "\n", "\r", "\f"}

isdigit(c) == c \in {"0", "1", "2", "3", "4", "5", "6", "7", "8", "9"}

DigitVal(c) ==
    CASE c = "0" -> 0 [] c = "1" -> 1 [] c = "2" -> 2 [] c = "3" -> 3
      [] c = "4" -> 4 [] c = "5" -> 5 [] c = "6" -> 6 [] c = "7" -> 7
      [] c = "8" -> 8 [] c = "9" -> 9

\* tolower, on the letters that the keywords are made of
tolower(c) ==
    CASE c = "A" -> "a" [] c = "C" -> "c" [] c = "D" -> "d" [] c = "E" -> "e"
      [] c = "H" -> "h" [] c = "I" -> "i" [] c = "L" -> "l" [] c = "M" -> "m"
      [] c = "N" -> "n" [] c = "S" -> "s" [] c = "T" -> "t" [] c = "U" -> "u"
      [] c = "W" -> "w" [] c = "X" -> "x"
      [] OTHER -> c

Min(a, b) == IF a < b THEN a ELSE b

\* the characters of s from index i on (the C string at s + i - 1)
From(s, i) == SubSeq(s, i, Len(s))

\* strchr(s, c) as an index into s, 0 for NULL
strchr(s, c) ==
    IF \E i \in 1..Len(s) : s[i] = c
    THEN CHOOSE i \in 1..Len(s) : s[i] = c /\ \A j \in 1..(i - 1) : s[j] # c
    ELSE 0

\* strstr(s, "=>") as an index into s, 0 for NULL
IsArrowAt(s, i) == i + 1 <= Len(s) /\ s[i] = "=" /\ s[i + 1] = ">"

\* strstr_arrow looking for "=" alone
strstr_arrow_Eq(s) == strchr(s, "=")

strstr_arrow(s) ==
    IF \E i \in 1..Len(s) : IsArrowAt(s, i)
    THEN CHOOSE i \in 1..Len(s) :
             IsArrowAt(s, i) /\ \A j \in 1..(i - 1) : ~IsArrowAt(s, j)
    ELSE 0

\* strncasecmp(s, kw, Len(kw)) == 0
strncasecmp0(s, kw) ==
    /\ Len(s) >= Len(kw)
    /\ \A i \in 1..Len(kw) : tolower(s[i]) = tolower(kw[i])

\* the C string that starts at index i of buffer buf: up to the next NUL
RECURSIVE CStrLen(_, _)
CStrLen(buf, i) ==
    IF i > Len(buf) \/ buf[i] = NUL THEN 0 ELSE 1 + CStrLen(buf, i + 1)

CStr(buf, i) == SubSeq(buf, i, i + CStrLen(buf, i) - 1)

\* trim: the index of the first non-space character of str, Len(str)+1 if none
RECURSIVE SkipSpace(_, _)
SkipSpace(str, i) ==
    IF i <= Len(str) /\ isspace(str[i]) THEN SkipSpace(str, i + 1) ELSE i

\* trim: end walks back from the last character while end > str and isspace
RECURSIVE TrimEnd(_, _, _)
TrimEnd(str, start, end) ==
    IF end > start /\ isspace(str[end]) THEN TrimEnd(str, start, end - 1) ELSE end

trim(str) ==
    LET start == SkipSpace(str, 1)
    IN  IF start > Len(str) THEN <<>>
        ELSE SubSeq(str, start, TrimEnd(str, start, Len(str)))

is_comment_or_blank(line) ==
    LET i == SkipSpace(line, 1)
    IN  i > Len(line) \/ line[i] = ";" \/ line[i] = "#"

(***************************************************************************)
(* Diagnostics: one record per fprintf(stderr, ...).  args holds the %d    *)
(* arguments and text the %s argument of the format.                       *)
(***************************************************************************)
Err(msg) == [sev |-> "error", msg |-> msg, args |-> <<>>, text |-> <<>>]

ErrCounters(msg, parens, brackets, braces) ==
    [sev |-> "error", msg |-> msg, args |-> <<parens, brackets, braces>>,
     text |-> <<>>]

ErrText(msg, str) == [sev |-> "error", msg |-> msg, args |-> <<>>, text |-> str]

Warn(msg, str) == [sev |-> "warning", msg |-> msg, args |-> <<>>, text |-> str]

(***************************************************************************)
(* check_balanced: the scan of str from index p on, with the counters and  *)
(* the quote state of the loop.  The result is the return value and the    *)
(* diagnostics written (each one also counted in state->errors).           *)
(***************************************************************************)
\* QuoteCloses with the backslash before the quote not looked at
QuoteCloses_Unescaped(str, p, quote_char) == str[p] = quote_char

QuoteCloses(str, p, quote_char) == str[p] = quote_char /\ str[p - 1] # "\\"

\* IsQuoteChar with the single quote left out of the switch
IsQuoteChar_Double(c) == c = "\""

IsQuoteChar(c) == c = "\"" \/ c = "'"

\* TooManyClosing with the early exit left out
TooManyClosing_Never(parens, brackets, braces) == FALSE

TooManyClosing(parens, brackets, braces) ==
    parens < 0 \/ brackets < 0 \/ braces < 0

Unbalanced(parens, brackets, braces) ==
    parens # 0 \/ brackets # 0 \/ braces # 0

RECURSIVE BalancedScan(_, _, _, _, _, _, _)
BalancedScan(str, p, parens, brackets, braces, in_quote, quote_char) ==
    IF p > Len(str)
    THEN IF in_quote
         THEN [ret |-> 0, out |-> <<Err("Unclosed quote")>>]
         ELSE IF Unbalanced(parens, brackets, braces)
         THEN [ret |-> 0,
               out |-> <<ErrCounters(
                   "Unbalanced delimiters (parens=%d, brackets=%d, braces=%d)",
                   parens, brackets, braces)>>]
         ELSE [ret |-> 1, out |-> <<>>]
    ELSE IF in_quote
    THEN BalancedScan(str, p + 1, parens, brackets, braces,
                      ~QuoteCloses(str, p, quote_char), quote_char)
    ELSE LET c   == str[p]
             q   == IsQuoteChar(c)
             pa  == IF c = "(" THEN parens + 1
                    ELSE IF c = ")" THEN parens - 1 ELSE parens
             bk  == IF c = "[" THEN brackets + 1
                    ELSE IF c = "]" THEN brackets - 1 ELSE brackets
             bc  == IF c = "{" THEN braces + 1
                    ELSE IF c = "}" THEN braces - 1 ELSE braces
         IN  IF TooManyClosing(pa, bk, bc)
             THEN [ret |-> 0,
                   out |-> <<Err("Unbalanced delimiters (too many closing)")>>]
             ELSE BalancedScan(str, p + 1, pa, bk, bc, q,
                               IF q THEN c ELSE quote_char)

check_balanced(str) == BalancedScan(str, 1, 0, 0, 0, FALSE, NUL)

(***************************************************************************)
(* check_variable_syntax.  RefScan is the inner while loop: from index p   *)
(* with the depth count, it ends at the end of the text or when the count  *)
(* is back to 0, and yields <<p, count>>.                                  *)
(***************************************************************************)
\* RefScan taking either closing character for the one it waits for
RECURSIVE RefScan_AnyCloser(_, _, _, _, _)
RefScan_AnyCloser(str, p, count, open, close) ==
    IF p <= Len(str) /\ count > 0
    THEN RefScan_AnyCloser(str, p + 1,
                 IF str[p] = open THEN count + 1
                 ELSE IF str[p] \in {"}", "]"} THEN count - 1 ELSE count,
                 open, close)
    ELSE <<p, count>>

RECURSIVE RefScan(_, _, _, _, _)
RefScan(str, p, count, open, close) ==
    IF p <= Len(str) /\ count > 0
    THEN RefScan(str, p + 1,
                 IF str[p] = open THEN count + 1
                 ELSE IF str[p] = close THEN count - 1 ELSE count,
                 open, close)
    ELSE <<p, count>>

\* strchr(p, '$') from index p of str: an index of str, 0 for NULL
NextDollar(str, p) ==
    LET i == strchr(From(str, p), "$") IN IF i = 0 THEN 0 ELSE p + i - 1

\* VariableScan going on, after an unterminated reference, right behind the
\* two characters that opened it
RECURSIVE VariableScan_Resume(_, _, _)
VariableScan_Resume(str, p0, out) ==
    LET p == IF p0 > Len(str) THEN 0 ELSE NextDollar(str, p0)
    IN  IF p = 0 THEN out
        ELSE IF p + 1 <= Len(str) /\ str[p + 1] = "{"
        THEN LET r == RefScan(str, p + 2, 1, "{", "}")
             IN  IF r[2] # 0
                 THEN VariableScan_Resume(str, p + 2,
                          Append(out, Err("Unclosed ${...} variable reference")))
                 ELSE VariableScan_Resume(str, r[1], out)
        ELSE IF p + 1 <= Len(str) /\ str[p + 1] = "["
        THEN LET r == RefScan(str, p + 2, 1, "[", "]")
             IN  IF r[2] # 0
                 THEN VariableScan_Resume(str, p + 2,
                          Append(out, Err("Unclosed $[...] expression")))
                 ELSE VariableScan_Resume(str, r[1], out)
        ELSE VariableScan_Resume(str, p + 1, out)

RECURSIVE VariableScan(_, _, _)
VariableScan(str, p0, out) ==
    LET p == IF p0 > Len(str) THEN 0 ELSE NextDollar(str, p0)
    IN  IF p = 0 THEN out
        ELSE IF p + 1 <= Len(str) /\ str[p + 1] = "{"
        THEN LET r == RefScan(str, p + 2, 1, "{", "}")
             IN  VariableScan(str, r[1],
                     IF r[2] # 0
                     THEN Append(out, Err("Unclosed ${...} variable reference"))
                     ELSE out)
        ELSE IF p + 1 <= Len(str) /\ str[p + 1] = "["
        THEN LET r == RefScan(str, p + 2, 1, "[", "]")
             IN  VariableScan(str, r[1],
                     IF r[2] # 0
                     THEN Append(out, Err("Unclosed $[...] expression"))
                     ELSE out)
        ELSE VariableScan(str, p + 1, out)

check_variable_syntax(str) ==
    LET out == VariableScan(str, 1, <<>>)
    IN  [ret |-> IF out = <<>> THEN 1 ELSE 0, out |-> out]

(***************************************************************************)
(* parse_context                                                           *)
(***************************************************************************)
\* strncpy(state->current_context, context, MAX_VAR_NAME - 1) into a buffer
\* whose last byte is never written and stays 0
\* StoreContext with the whole name copied
StoreContext_Unbounded(context) == context

StoreContext(context) == SubSeq(context, 1, Min(Len(context), MAX_VAR_NAME - 1))

\* parse_context taking the end of the line for a missing ']'
parse_context_Lenient(line, cur) ==
    LET end == IF strchr(line, "]") = 0 THEN Len(line) + 1
               ELSE strchr(line, "]")
        context == trim(SubSeq(line, 2, end - 1))
    IN  IF Len(context) = 0
        THEN [ret |-> 0, out |-> <<Err("Empty context name")>>, ctx |-> cur]
        ELSE [ret |-> 1, out |-> <<>>, ctx |-> StoreContext(context)]

parse_context(line, cur) ==
    LET end == strchr(line, "]")
        context == trim(SubSeq(line, 2, end - 1))
    IN  IF end = 0
        THEN [ret |-> 0, out |-> <<Err("Malformed context (missing ']')")>>,
              ctx |-> cur]
        ELSE IF Len(context) = 0
        THEN [ret |-> 0, out |-> <<Err("Empty context name")>>, ctx |-> cur]
        ELSE [ret |-> 1, out |-> <<>>, ctx |-> StoreContext(context)]

(***************************************************************************)
(* strtol(str, &endptr, 10): <<value, endptr>>, endptr an index into str   *)
(* (Len(str)+1 is the terminating 0).  With no digits the value is 0 and   *)
(* endptr is str itself.  Saturation at LONG_MAX / LONG_MIN needs 19       *)
(* digits and keeps the sign, which is all that the caller reads.          *)
(***************************************************************************)
RECURSIVE Digits(_, _, _)
Digits(str, i, acc) ==
    IF i <= Len(str) /\ isdigit(str[i])
    THEN Digits(str, i + 1, acc * 10 + DigitVal(str[i]))
    ELSE <<acc, i>>

strtol(str) ==
    LET s    == SkipSpace(str, 1)
        neg  == s <= Len(str) /\ str[s] = "-"
        sign == s <= Len(str) /\ (str[s] = "-" \/ str[s] = "+")
        d    == IF sign THEN s + 1 ELSE s
        r    == Digits(str, d, 0)
    IN  IF r[2] = d THEN <<0, 1>>
        ELSE <<IF neg THEN 0 - r[1] ELSE r[1], r[2]>>

(***************************************************************************)
(* parse_extension.  The code cuts the line buffer in place: it writes 0   *)
(* over both separating commas and, in trim, after the last non-space      *)
(* character of a field.  data keeps pointing at the start of the text     *)
(* after "=>", so what check_variable_syntax(data) reads at the end is the *)
(* C string that is left there after those writes.                         *)
(***************************************************************************)
kw_exten == <<"e", "x", "t", "e", "n">>
kw_same == <<"s", "a", "m", "e">>
kw_include == <<"i", "n", "c", "l", "u", "d", "e">>
kw_switch == <<"s", "w", "i", "t", "c", "h">>
kw_eswitch == <<"e", "s", "w", "i", "t", "c", "h">>
kw_lswitch == <<"l", "s", "w", "i", "t", "c", "h">>
str_hint == <<"h", "i", "n", "t">>
str_n == <<"n">>

\* the buffer after trim(buf + i - 1) wrote its terminating 0
TrimCut(buf, i) ==
    LET s     == CStr(buf, i)
        start == SkipSpace(s, 1)
        cut   == i + TrimEnd(s, start, Len(s))
    IN  IF start > Len(s) \/ cut > Len(buf) THEN buf
        ELSE [buf EXCEPT ![cut] = NUL]

\* the for loop that looks for the two separating commas: <<comma1, comma2>>,
\* indexes into data, 0 for NULL
\* CommaScan with every comma taken for a separator
RECURSIVE CommaScan_Flat(_, _, _, _, _)
CommaScan_Flat(data, p, parens, brackets, comma1) ==
    IF p > Len(data) THEN <<comma1, 0>>
    ELSE IF data[p] = ","
    THEN IF comma1 = 0 THEN CommaScan_Flat(data, p + 1, parens, brackets, p)
         ELSE <<comma1, p>>
    ELSE CommaScan_Flat(data, p + 1, parens, brackets, comma1)

RECURSIVE CommaScan(_, _, _, _, _)
CommaScan(data, p, parens, brackets, comma1) ==
    IF p > Len(data) THEN <<comma1, 0>>
    ELSE LET c == data[p]
         IN  IF c = "(" THEN CommaScan(data, p + 1, parens + 1, brackets, comma1)
             ELSE IF c = ")"
             THEN CommaScan(data, p + 1, parens - 1, brackets, comma1)
             ELSE IF c = "["
             THEN CommaScan(data, p + 1, parens, brackets + 1, comma1)
             ELSE IF c = "]"
             THEN CommaScan(data, p + 1, parens, brackets - 1, comma1)
             ELSE IF c = "," /\ parens = 0 /\ brackets = 0
             THEN IF comma1 = 0 THEN CommaScan(data, p + 1, parens, brackets, p)
                  ELSE <<comma1, p>>
             ELSE CommaScan(data, p + 1, parens, brackets, comma1)

\* PriorityTooLow with the bound off by one: priority 0 passes
PriorityTooLow_Zero(pri) == pri < 0

\* PriorityTooLow with the first priority refused as well
PriorityTooLow_One(pri) == pri <= 1

PriorityTooLow(pri) == pri < 1

\* the priority check of an exten line: the diagnostics it writes
check_priority(priority_str) ==
    IF priority_str = str_hint \/ priority_str = str_n THEN <<>>
    ELSE LET r      == strtol(priority_str)
             endc   == IF r[2] <= Len(priority_str)
                       THEN priority_str[r[2]] ELSE NUL
         IN  IF endc # NUL /\ endc # "("
             THEN <<ErrText(
                 "Invalid priority '%s' (must be number, 'n', or 'hint')",
                 priority_str)>>
             ELSE IF PriorityTooLow(r[1])
             THEN <<Err("Priority must be >= 1")>>
             ELSE <<>>

\* ValidatesPriority with the priority of same lines checked too
ValidatesPriority_Always(is_same) == TRUE

\* "if (!is_same)": the priority is validated on exten lines only
ValidatesPriority(is_same) == ~is_same

\* HasArguments with every application that is not empty checked
HasArguments_Always(app) == Len(app) > 0

\* "if (strlen(app) > 0)" and "if (paren)": the application has arguments
HasArguments(app) == Len(app) > 0 /\ strchr(app, "(") # 0

\* the text that check_variable_syntax is given at the end of parse_extension
ReferenceText(buf) == CStr(buf, 1)

parse_extension(line) ==
    LET arrow   == strstr_arrow(line)
        keyword == From(line, SkipSpace(line, 1))
        is_exten == strncasecmp0(keyword, kw_exten)
        is_same == ~is_exten /\ strncasecmp0(keyword, kw_same)
        data    == trim(From(line, arrow + 2))
        commas  == CommaScan(data, 1, 0, 0, 0)
        comma1  == commas[1]
        comma2  == commas[2]
        cut     == [data EXCEPT ![comma1] = NUL, ![comma2] = NUL]
        priority_str == trim(CStr(cut, comma1 + 1))
        app     == trim(CStr(cut, comma2 + 1))
        buf     == TrimCut(TrimCut(TrimCut(cut, comma1 + 1), comma2 + 1), 1)
        pri     == IF ValidatesPriority(is_same)
                   THEN check_priority(priority_str) ELSE <<>>
        bal     == IF HasArguments(app)
                   THEN check_balanced(app) ELSE [ret |-> 1, out |-> <<>>]
    IN  IF arrow = 0
        THEN [ret |-> 0,
              out |-> <<Err("Missing '=>' in extension definition")>>]
        ELSE IF ~is_exten /\ ~is_same
        THEN [ret |-> 0,
              out |-> <<Err("Unknown keyword (expected 'exten' or 'same')")>>]
        ELSE IF comma1 = 0 \/ comma2 = 0
        THEN [ret |-> 0,
              out |-> <<Err(
       "Extension must have format: exten => pattern,priority,app(args)")>>]
        ELSE IF pri # <<>> THEN [ret |-> 0, out |-> pri]
        ELSE IF bal.ret = 0 THEN [ret |-> 0, out |-> bal.out]
        ELSE [ret |-> 1, out |-> check_variable_syntax(ReferenceText(buf)).out]

(***************************************************************************)
(* parse_include                                                           *)
(***************************************************************************)
\* parse_include without the test of the text after the arrow
parse_include_AnyContext(line) ==
    IF strstr_arrow(line) = 0
    THEN [ret |-> 0, out |-> <<Err("Missing '=>' in include statement")>>]
    ELSE [ret |-> 1, out |-> <<>>]

parse_include(line) ==
    LET arrow   == strstr_arrow(line)
        context == trim(From(line, arrow + 2))
    IN  IF arrow = 0
        THEN [ret |-> 0, out |-> <<Err("Missing '=>' in include statement")>>]
        ELSE IF Len(context) = 0
        THEN [ret |-> 0,
              out |-> <<Err("Empty context in include statement")>>]
        ELSE [ret |-> 1, out |-> <<>>]

\* the switch branch of validate_dialplan
check_switch(line) ==
    IF strstr_arrow(line) = 0
    THEN <<Err("Missing '=>' in switch statement")>>
    ELSE <<>>

(***************************************************************************)
(* Input lines.                                                            *)
(***************************************************************************)
\* (an empty line)
ln_blank ==
    <<>>

\* ; Internal extensions
ln_comment ==
    <<";", " ", "I", "n", "t", "e", "r", "n", "a", "l", " ", "e", "x", "t",
      "e", "n", "s", "i", "o", "n", "s">>

\* [default]
ln_default ==
    <<"[", "d", "e", "f", "a", "u", "l", "t", "]">>

\* [test
ln_test_open ==
    <<"[", "t", "e", "s", "t">>

\*   [ ]
ln_empty_name ==
    <<" ", " ", "[", " ", "]">>

\* [ sales ]extra]
ln_padded_context ==
    <<"[", " ", "s", "a", "l", "e", "s", " ", "]", "e", "x", "t", "r", "a",
      "]">>

\* a header whose name is longer than the buffer that stores it
ln_long_context ==
    <<"[">> \o [i \in 1..(MAX_VAR_NAME + 5) |-> "a"] \o <<"]">>

\* a comment of MAX_LINE - 1 characters: with its newline it is one
\* character more than fgets reads at once
ln_long_comment == <<";">> \o [i \in 1..(MAX_LINE - 2) |-> "a"]

\* a comment of MAX_LINE - 2 characters: the longest line read at once
ln_fit_comment == <<";">> \o [i \in 1..(MAX_LINE - 3) |-> "a"]

\* [general]
ln_general ==
    <<"[", "g", "e", "n", "e", "r", "a", "l", "]">>

\* [globals]
ln_globals ==
    <<"[", "g", "l", "o", "b", "a", "l", "s", "]">>

\* [internal]
ln_internal ==
    <<"[", "i", "n", "t", "e", "r", "n", "a", "l", "]">>

\* exten => s,1,NoOp()
ln_exten_noop ==
    <<"e", "x", "t", "e", "n", " ", "=", ">", " ", "s", ",", "1", ",", "N",
      "o", "O", "p", "(", ")">>

\* exten => s,1,Hangup()
ln_exten_hangup ==
    <<"e", "x", "t", "e", "n", " ", "=", ">", " ", "s", ",", "1", ",", "H",
      "a", "n", "g", "u", "p", "(", ")">>

\* same => n,Hangup()
ln_same_hangup ==
    <<"s", "a", "m", "e", " ", "=", ">", " ", "n", ",", "H", "a", "n", "g",
      "u", "p", "(", ")">>

\*     same => n,Hangup()
ln_same_hangup_indented ==
    <<" ", " ", " ", " ", "s", "a", "m", "e", " ", "=", ">", " ", "n", ",",
      "H", "a", "n", "g", "u", "p", "(", ")">>

\* exten = s,1,NoOp()
ln_exten_eq ==
    <<"e", "x", "t", "e", "n", " ", "=", " ", "s", ",", "1", ",", "N", "o",
      "O", "p", "(", ")">>

\* exten = ${X,0,Dial(
ln_exten_eq_bad ==
    <<"e", "x", "t", "e", "n", " ", "=", " ", "$", "{", "X", ",", "0", ",",
      "D", "i", "a", "l", "(">>

\* same n,Hangup()
ln_same_noarrow ==
    <<"s", "a", "m", "e", " ", "n", ",", "H", "a", "n", "g", "u", "p", "(",
      ")">>

\* include = other
ln_include_eq ==
    <<"i", "n", "c", "l", "u", "d", "e", " ", "=", " ", "o", "t", "h", "e",
      "r">>

\* switch = Realtime/x
ln_switch_eq ==
    <<"s", "w", "i", "t", "c", "h", " ", "=", " ", "R", "e", "a", "l", "t",
      "i", "m", "e", "/", "x">>

\* exten => s,0,NoOp()
ln_exten_zero ==
    <<"e", "x", "t", "e", "n", " ", "=", ">", " ", "s", ",", "0", ",", "N",
      "o", "O", "p", "(", ")">>

\* exten => ${A${B,1,NoOp
ln_exten_two_open ==
    <<"e", "x", "t", "e", "n", " ", "=", ">", " ", "$", "{", "A", "$", "{",
      "B", ",", "1", ",", "N", "o", "O", "p">>

\* exten => s,1,Dial(SIP/peer,30
ln_exten_dial_open ==
    <<"e", "x", "t", "e", "n", " ", "=", ">", " ", "s", ",", "1", ",", "D",
      "i", "a", "l", "(", "S", "I", "P", "/", "p", "e", "e", "r", ",", "3",
      "0">>

\* exten => s,1,Set(VAR=${CALLERID(num)
ln_exten_set_open ==
    <<"e", "x", "t", "e", "n", " ", "=", ">", " ", "s", ",", "1", ",", "S",
      "e", "t", "(", "V", "A", "R", "=", "$", "{", "C", "A", "L", "L", "E",
      "R", "I", "D", "(", "n", "u", "m", ")">>

\* exten => s,1,Foo${BAR
ln_exten_foo_ref ==
    <<"e", "x", "t", "e", "n", " ", "=", ">", " ", "s", ",", "1", ",", "F",
      "o", "o", "$", "{", "B", "A", "R">>

\* exten => ${X,1,NoOp()
ln_exten_pattern_ref ==
    <<"e", "x", "t", "e", "n", " ", "=", ">", " ", "$", "{", "X", ",", "1",
      ",", "N", "o", "O", "p", "(", ")">>

\* exten => s,1,Verbose(1, It's working)
ln_exten_quote ==
    <<"e", "x", "t", "e", "n", " ", "=", ">", " ", "s", ",", "1", ",", "V",
      "e", "r", "b", "o", "s", "e", "(", "1", ",", " ", "I", "t", "'", "s",
      " ", "w", "o", "r", "k", "i", "n", "g", ")">>

\* EXTEN => s,hint,NoOp()
ln_exten_upper_hint ==
    <<"E", "X", "T", "E", "N", " ", "=", ">", " ", "s", ",", "h", "i", "n",
      "t", ",", "N", "o", "O", "p", "(", ")">>

\* same => n,Dial(PJSIP/${EXTEN},20)
ln_same_dial ==
    <<"s", "a", "m", "e", " ", "=", ">", " ", "n", ",", "D", "i", "a", "l",
      "(", "P", "J", "S", "I", "P", "/", "$", "{", "E", "X", "T", "E", "N",
      "}", ",", "2", "0", ")">>

\* include => voicemail-main
ln_include ==
    <<"i", "n", "c", "l", "u", "d", "e", " ", "=", ">", " ", "v", "o", "i",
      "c", "e", "m", "a", "i", "l", "-", "m", "a", "i", "n">>

\* include =>
ln_include_empty ==
    <<"i", "n", "c", "l", "u", "d", "e", " ", "=", ">">>

\* switch => Realtime/x
ln_switch ==
    <<"s", "w", "i", "t", "c", "h", " ", "=", ">", " ", "R", "e", "a", "l",
      "t", "i", "m", "e", "/", "x">>

\* lswitch x
ln_lswitch_noarrow ==
    <<"l", "s", "w", "i", "t", "c", "h", " ", "x">>

\* static=yes
ln_static ==
    <<"s", "t", "a", "t", "i", "c", "=", "y", "e", "s">>

\* writeprotect=no
ln_writeprotect ==
    <<"w", "r", "i", "t", "e", "p", "r", "o", "t", "e", "c", "t", "=", "n",
      "o">>

\* TRUNK=SIP/provider
ln_trunk ==
    <<"T", "R", "U", "N", "K", "=", "S", "I", "P", "/", "p", "r", "o", "v",
      "i", "d", "e", "r">>

\* foo
ln_foo ==
    <<"f", "o", "o">>

\* sametime=1
ln_sametime ==
    <<"s", "a", "m", "e", "t", "i", "m", "e", "=", "1">>

\* extension_x=2
ln_extension_x ==
    <<"e", "x", "t", "e", "n", "s", "i", "o", "n", "_", "x", "=", "2">>

\* includes=3
ln_includes ==
    <<"i", "n", "c", "l", "u", "d", "e", "s", "=", "3">>

\* switchboard=4
ln_switchboard ==
    <<"s", "w", "i", "t", "c", "h", "b", "o", "a", "r", "d", "=", "4">>

\* exten => _1XX,1,NoOp(Internal call to ${EXTEN})
ln_ex_1xx ==
    <<"e", "x", "t", "e", "n", " ", "=", ">", " ", "_", "1", "X", "X", ",",
      "1", ",", "N", "o", "O", "p", "(", "I", "n", "t", "e", "r", "n", "a",
      "l", " ", "c", "a", "l", "l", " ", "t", "o", " ", "$", "{", "E", "X",
      "T", "E", "N", "}", ")">>

\*     same => n,Dial(PJSIP/${EXTEN},20)
ln_ex_same_dial ==
    <<" ", " ", " ", " ", "s", "a", "m", "e", " ", "=", ">", " ", "n", ",",
      "D", "i", "a", "l", "(", "P", "J", "S", "I", "P", "/", "$", "{", "E",
      "X", "T", "E", "N", "}", ",", "2", "0", ")">>

\*     same => n,VoiceMail(${EXTEN}@default,u)
ln_ex_same_vm ==
    <<" ", " ", " ", " ", "s", "a", "m", "e", " ", "=", ">", " ", "n", ",",
      "V", "o", "i", "c", "e", "M", "a", "i", "l", "(", "$", "{", "E", "X",
      "T", "E", "N", "}", "@", "d", "e", "f", "a", "u", "l", "t", ",", "u",
      ")">>

\* ; Outbound calls
ln_ex_comment2 ==
    <<";", " ", "O", "u", "t", "b", "o", "u", "n", "d", " ", "c", "a", "l",
      "l", "s">>

\* exten => _91NXXNXXXXXX,1,NoOp(Outbound call)
ln_ex_91 ==
    <<"e", "x", "t", "e", "n", " ", "=", ">", " ", "_", "9", "1", "N", "X",
      "X", "N", "X", "X", "X", "X", "X", "X", ",", "1", ",", "N", "o", "O",
      "p", "(", "O", "u", "t", "b", "o", "u", "n", "d", " ", "c", "a", "l",
      "l", ")">>

\*     same => n,Set(CALLERID(num)=${COMPANY_CID})
ln_ex_same_set ==
    <<" ", " ", " ", " ", "s", "a", "m", "e", " ", "=", ">", " ", "n", ",",
      "S", "e", "t", "(", "C", "A", "L", "L", "E", "R", "I", "D", "(", "n",
      "u", "m", ")", "=", "$", "{", "C", "O", "M", "P", "A", "N", "Y", "_",
      "C", "I", "D", "}", ")">>

\*     same => n,Dial(${TRUNK}/${EXTEN:1},60)
ln_ex_same_trunk ==
    <<" ", " ", " ", " ", "s", "a", "m", "e", " ", "=", ">", " ", "n", ",",
      "D", "i", "a", "l", "(", "$", "{", "T", "R", "U", "N", "K", "}", "/",
      "$", "{", "E", "X", "T", "E", "N", ":", "1", "}", ",", "6", "0", ")">>

\* exten => s,
pri_prefix ==
    <<"e", "x", "t", "e", "n", " ", "=", ">", " ", "s", ",">>

\* ,NoOp()
pri_suffix ==
    <<",", "N", "o", "O", "p", "(", ")">>

\* abc
pri_abc ==
    <<"a", "b", "c">>

\* 5(label)
pri_label ==
    <<"5", "(", "l", "a", "b", "e", "l", ")">>

\* n(start)
pri_n_label ==
    <<"n", "(", "s", "t", "a", "r", "t", ")">>


(***************************************************************************)
(* Input files.  MaxLines bounds the files that are built from LinePool,   *)
(* MaxPriLen the priority texts that are built from PriAlphabet.           *)
(***************************************************************************)
MaxLines == 2
MaxPriLen == 3

LinePool ==
    {ln_blank, ln_comment, ln_default, ln_test_open, ln_empty_name,
     ln_exten_noop, ln_same_hangup, ln_exten_eq, ln_exten_zero,
     ln_exten_pattern_ref, ln_exten_dial_open, ln_include, ln_include_empty,
     ln_switch, ln_lswitch_noarrow, ln_static, ln_foo, ln_sametime}

PoolFiles == UNION {[1..k -> LinePool] : k \in 0..MaxLines}

PriAlphabet == {"0", "1", "-", "+", "n", "a", "(", ")", " "}

PriStrings ==
    UNION {[1..k -> PriAlphabet] : k \in 0..MaxPriLen}
        \cup {str_hint, pri_abc, pri_label, pri_n_label}

\* [default] / exten => s,<p>,NoOp()
PriFile(p) == <<ln_default, pri_prefix \o p \o pri_suffix>>

PriFiles == {PriFile(p) : p \in PriStrings}

ScenarioA == <<ln_default, ln_exten_noop>>
ScenarioB == <<ln_default, ln_exten_dial_open, ln_same_hangup>>
ScenarioC == <<ln_default, ln_exten_zero>>
ScenarioD == <<ln_default, ln_exten_eq>>
ScenarioE == <<ln_default, ln_exten_set_open>>
ScenarioF == <<ln_test_open, ln_exten_hangup>>

\* README.md, "Example Dialplan"
ReadmeExample ==
    <<ln_general, ln_static, ln_writeprotect, ln_blank,
      ln_globals, ln_trunk, ln_blank,
      ln_internal, ln_comment, ln_ex_1xx, ln_ex_same_dial, ln_ex_same_vm,
      ln_same_hangup_indented, ln_blank,
      ln_ex_comment2, ln_ex_91, ln_ex_same_set, ln_ex_same_trunk,
      ln_same_hangup_indented, ln_blank,
      ln_include>>

GeneralSection == <<ln_general, ln_static, ln_writeprotect>>
GlobalsSection == <<ln_globals, ln_trunk>>
SameTwoFields == <<ln_default, ln_exten_noop, ln_same_hangup, ln_same_dial>>
FooReference == <<ln_default, ln_exten_foo_ref>>
QuoteInArguments == <<ln_default, ln_exten_quote>>
KeywordsBeforeContext == <<ln_exten_eq, ln_include_eq, ln_switch_eq>>
KeywordsInContext == <<ln_default, ln_exten_eq, ln_include_eq, ln_switch_eq>>
KeywordPrefixes ==
    <<ln_default, ln_sametime, ln_extension_x, ln_includes, ln_switchboard>>
UpperCaseHint == <<ln_default, ln_exten_upper_hint>>
MissingArrows == <<ln_default, ln_exten_eq_bad, ln_same_noarrow>>
UnknownBothSides == <<ln_foo, ln_default, ln_foo, ln_static>>
ContextNames ==
    <<ln_default, ln_padded_context, ln_empty_name, ln_test_open, ln_foo>>
LongContextName == <<ln_padded_context, ln_long_context, ln_empty_name>>
LongLine == <<ln_long_comment, ln_test_open>>
FitLine == <<ln_fit_comment, ln_test_open>>
TwoOpenReferences == <<ln_default, ln_exten_two_open, ln_blank, ln_foo>>

ScenarioFiles ==
    {ScenarioA, ScenarioB, ScenarioC, ScenarioD, ScenarioE, ScenarioF,
     ReadmeExample, GeneralSection, GlobalsSection, SameTwoFields,
     FooReference, QuoteInArguments, KeywordsBeforeContext,
     KeywordsInContext, KeywordPrefixes, UpperCaseHint, MissingArrows,
     UnknownBothSides, ContextNames, LongContextName, LongLine,
     FitLine, TwoOpenReferences}

Files == ScenarioFiles \cup PoolFiles \cup PriFiles

(***************************************************************************)
(* validate_dialplan.                                                      *)
(***************************************************************************)
\* the outcome of a validation: nothing yet
NoResult ==
    [diags |-> <<>>, errors |-> 0, warnings |-> 0, summary |-> "none",
     exit_status |-> -1]

Init ==
    /\ file \in Files
    /\ li = 1
    /\ off = 0
    /\ pc = "open"
    /\ errors = 0
    /\ warnings = 0
    /\ line_num = 0
    /\ current_context = <<>>
    /\ in_context = FALSE
    /\ diags = <<>>
    /\ summary = "none"
    /\ exit_status = -1
    /\ arg = <<>>
    /\ ret = -1
    /\ run = 1
    /\ first = NoResult

\* fgets(line, sizeof(line), fp): at most MAX_LINE - 1 characters of the
\* current physical line and its newline, from offset off
Fgets ==
    LET text == file[li] \o <<NL>>
    IN  SubSeq(text, off + 1, Min(Len(text), off + MAX_LINE - 1))

\* the line buffer after "if (newline) *newline = '\0'"
StripNewline(buf) ==
    LET newline == strchr(buf, NL)
    IN  IF newline = 0 THEN buf ELSE SubSeq(buf, 1, newline - 1)

CurLine == StripNewline(Fgets)

CurTrimmed == trim(CurLine)

\* MoreInput with the loop left at the first line that has an error
MoreInput_StopOnError == pc = "scan" /\ li <= Len(file) /\ errors = 0

MoreInput == pc = "scan" /\ li <= Len(file)

\* the first whitespace-delimited token of a trimmed line, in lower case
RECURSIVE TokenLen(_, _)
TokenLen(str, i) ==
    IF i > Len(str) \/ isspace(str[i]) THEN i - 1 ELSE TokenLen(str, i + 1)

FirstToken(str) ==
    [i \in 1..TokenLen(str, 1) |-> tolower(str[i])]

IsContextLine(trimmed) == trimmed[1] = "["

IsGlobalAssignment(trimmed) ==
    ~in_context /\ strchr(trimmed, "=") # 0 /\ strstr_arrow(trimmed) = 0

\* IsExtensionLine with the keyword compared to the whole first token
IsExtensionLine_Token(trimmed) ==
    FirstToken(trimmed) = kw_exten \/ FirstToken(trimmed) = kw_same

IsExtensionLine(trimmed) ==
    strncasecmp0(trimmed, kw_exten) \/ strncasecmp0(trimmed, kw_same)

IsIncludeLine(trimmed) == strncasecmp0(trimmed, kw_include)

IsSwitchLine(trimmed) ==
    \/ strncasecmp0(trimmed, kw_switch)
    \/ strncasecmp0(trimmed, kw_eswitch)
    \/ strncasecmp0(trimmed, kw_lswitch)

\* Classify with the assignment test moved behind the keyword tests
Classify_KeywordsFirst(trimmed) ==
    IF IsContextLine(trimmed) THEN "context"
    ELSE IF IsExtensionLine(trimmed) THEN "extension"
    ELSE IF IsIncludeLine(trimmed) THEN "include"
    ELSE IF IsSwitchLine(trimmed) THEN "switch"
    ELSE IF IsGlobalAssignment(trimmed) THEN "assignment"
    ELSE IF in_context /\ Len(trimmed) > 0 THEN "unknown"
    ELSE "ignored"

\* Classify with the warning given outside a context too
Classify_WarnAlways(trimmed) ==
    IF IsContextLine(trimmed) THEN "context"
    ELSE IF IsGlobalAssignment(trimmed) THEN "assignment"
    ELSE IF IsExtensionLine(trimmed) THEN "extension"
    ELSE IF IsIncludeLine(trimmed) THEN "include"
    ELSE IF IsSwitchLine(trimmed) THEN "switch"
    ELSE IF Len(trimmed) > 0 THEN "unknown"
    ELSE "ignored"

\* the branch of the loop body that a non-blank, non-comment line takes
Classify(trimmed) ==
    IF IsContextLine(trimmed) THEN "context"
    ELSE IF IsGlobalAssignment(trimmed) THEN "assignment"
    ELSE IF IsExtensionLine(trimmed) THEN "extension"
    ELSE IF IsIncludeLine(trimmed) THEN "include"
    ELSE IF IsSwitchLine(trimmed) THEN "switch"
    ELSE IF in_context /\ Len(trimmed) > 0 THEN "unknown"
    ELSE "ignored"

LineClass ==
    IF is_comment_or_blank(CurLine) THEN "skip" ELSE Classify(CurTrimmed)

\* CountSev with every diagnostic counted, whatever its severity
CountSev_Any(out, sev) == Len(out)

CountSev(out, sev) == Cardinality({i \in 1..Len(out) : out[i].sev = sev})

\* the diagnostics out as written for line n
TagLine(out, n) ==
    [i \in 1..Len(out) |->
        [line |-> n, sev |-> out[i].sev, msg |-> out[i].msg,
         args |-> out[i].args, text |-> out[i].text]]

Tag(out) == TagLine(out, line_num + 1)

\* one iteration of the while loop: the line counter, the reader's position
\* and the diagnostics out that the iteration wrote
Iteration(out) ==
    /\ line_num' = line_num + 1
    /\ IF off + Len(Fgets) = Len(file[li]) + 1
       THEN li' = li + 1 /\ off' = 0
       ELSE li' = li /\ off' = off + Len(Fgets)
    /\ diags' = diags \o Tag(out)
    /\ errors' = errors + CountSev(out, "error")
    /\ warnings' = warnings + CountSev(out, "warning")
    /\ UNCHANGED <<file, pc, summary, exit_status, aside>>

Open ==
    /\ pc = "open"
    /\ pc' = "scan"
    /\ UNCHANGED <<file, li, off, errors, warnings, line_num, current_context,
                   in_context, diags, summary, exit_status, aside>>

\* fopen fails: "Error: Cannot open file", return 1
OpenFail ==
    /\ pc = "open"
    /\ pc' = "ioerror"
    /\ exit_status' = 1
    /\ UNCHANGED <<file, li, off, errors, warnings, line_num, current_context,
                   in_context, diags, summary, aside>>

SkipLine ==
    /\ MoreInput
    /\ LineClass = "skip"
    /\ Iteration(<<>>)
    /\ UNCHANGED <<current_context, in_context>>

\* ContextLine with the flag set only by a header that parsed
ContextLine_OnlyOnSuccess ==
    /\ MoreInput
    /\ LineClass = "context"
    /\ LET r == parse_context(CurTrimmed, current_context)
       IN  /\ Iteration(r.out)
           /\ current_context' = r.ctx
           /\ in_context' = (in_context \/ r.ret = 1)

ContextLine ==
    /\ MoreInput
    /\ LineClass = "context"
    /\ LET r == parse_context(CurTrimmed, current_context)
       IN  /\ Iteration(r.out)
           /\ current_context' = r.ctx
    /\ in_context' = TRUE

GlobalAssignment ==
    /\ MoreInput
    /\ LineClass = "assignment"
    /\ Iteration(<<>>)
    /\ UNCHANGED <<current_context, in_context>>

ExtensionLine ==
    /\ MoreInput
    /\ LineClass = "extension"
    /\ Iteration(parse_extension(CurTrimmed).out)
    /\ UNCHANGED <<current_context, in_context>>

IncludeLine ==
    /\ MoreInput
    /\ LineClass = "include"
    /\ Iteration(parse_include(CurTrimmed).out)
    /\ UNCHANGED <<current_context, in_context>>

SwitchLine ==
    /\ MoreInput
    /\ LineClass = "switch"
    /\ Iteration(check_switch(CurTrimmed))
    /\ UNCHANGED <<current_context, in_context>>

UnknownLine ==
    /\ MoreInput
    /\ LineClass = "unknown"
    /\ Iteration(<<Warn("Warning: Unknown directive '%s'", CurTrimmed)>>)
    /\ UNCHANGED <<current_context, in_context>>

IgnoredLine ==
    /\ MoreInput
    /\ LineClass = "ignored"
    /\ Iteration(<<>>)
    /\ UNCHANGED <<current_context, in_context>>

\* the summary and the return value, after fgets returned NULL
SummaryText(e, w) == IF e = 0 /\ w = 0 THEN "valid" ELSE "counts"

\* ExitStatus with warnings counted as a failure
ExitStatus_Warnings(e, w) == IF e = 0 /\ w = 0 THEN 0 ELSE 1

ExitStatus(e, w) == IF e = 0 /\ w = 0 THEN 0 ELSE IF e > 0 THEN 1 ELSE 0

Summary ==
    /\ pc = "scan"
    /\ li > Len(file)
    /\ pc' = "done"
    /\ summary' = SummaryText(errors, warnings)
    /\ exit_status' = ExitStatus(errors, warnings)
    /\ UNCHANGED <<file, li, off, errors, warnings, line_num, current_context,
                   in_context, diags, aside>>

Next ==
    \/ Open
    \/ OpenFail
    \/ SkipLine
    \/ ContextLine
    \/ GlobalAssignment
    \/ ExtensionLine
    \/ IncludeLine
    \/ SwitchLine
    \/ UnknownLine
    \/ IgnoredLine
    \/ Summary

Spec == Init /\ [][Next]_vars

\* one iteration of the fgets loop, whatever branch it takes
LineStep ==
    \/ SkipLine
    \/ ContextLine
    \/ GlobalAssignment
    \/ ExtensionLine
    \/ IncludeLine
    \/ SwitchLine
    \/ UnknownLine
    \/ IgnoredLine

\* The program is sequential and nothing suspends it: a step that can be
\* taken is taken.  For the iterations of the loop weak fairness is written
\* out, with their enabling condition MoreInput in the place of ENABLED:
\* the branches of the loop body cover every line.
SpecLive ==
    /\ Spec
    /\ WF_vars(Open \/ OpenFail)
    /\ WF_vars(Summary)
    /\ []<>(~MoreInput) \/ []<><<LineStep>>_vars

(***************************************************************************)
(* A second validation of the same file from a fresh state: the locals of  *)
(* validate_dialplan are initialised again on entry.                       *)
(***************************************************************************)
\* FreshInContext with the flag kept from the call before (a static local)
FreshInContext_Static(prev) == prev

\* "int in_context = 0;" on entry, whatever its value prev in the call before
FreshInContext(prev) == FALSE

Again ==
    /\ pc = "done"
    /\ run = 1
    /\ run' = 2
    /\ first' = [diags |-> diags, errors |-> errors, warnings |-> warnings,
                 summary |-> summary, exit_status |-> exit_status]
    /\ pc' = "open"
    /\ li' = 1
    /\ off' = 0
    /\ errors' = 0
    /\ warnings' = 0
    /\ line_num' = 0
    /\ current_context' = <<>>
    /\ in_context' = FreshInContext(in_context)
    /\ diags' = <<>>
    /\ summary' = "none"
    /\ exit_status' = -1
    /\ UNCHANGED <<file, arg, ret>>

NextTwice == Next \/ Again

SpecTwice == Init /\ [][NextTwice]_vars

(***************************************************************************)
(* The two checkers called on their own, on a text arg, with a state whose *)
(* counters are 0 and whose line number is 1.                              *)
(***************************************************************************)
MaxBalLen == 5
MaxVarLen == 6

BalAlphabet == {"(", ")", "[", "]", "{", "}", "'", "\"", "\\"}

VarAlphabet == {"$", "{", "}", "[", "]", "a"}

BalStrings == UNION {[1..k -> BalAlphabet] : k \in 0..MaxBalLen}

VarStrings == UNION {[1..k -> VarAlphabet] : k \in 0..MaxVarLen}

MaxDataLen == 5

SplitAlphabet == {",", "(", ")", "[", "]", "a"}

SplitStrings == UNION {[1..k -> SplitAlphabet] : k \in 0..MaxDataLen}

\* pattern fields
PatternPool ==
    {<<"s">>, <<"_", "[", "1", ",", "2", "]", "X">>, <<"$", "{", "X">>}

\* priority fields: valid, too low, no number, empty, with a label
PriorityPool ==
    {<<"1">>, <<"n">>, <<"0">>, <<"a", "b", "c">>, <<>>,
     <<"1", "(", "a", ")">>}

\* application fields, without and with an opening parenthesis
AppPool ==
    {<<"N", "o", "O", "p">>, <<"a", "[">>, <<"a", "]">>, <<"a", "{", "b">>,
     <<"}">>, <<"a", "'", "b">>, <<"a", "\"">>,
     <<"N", "o", "O", "p", "(", ")">>,
     <<"D", "i", "a", "l", "(", "a", ",", "b", ")">>,
     <<"D", "i", "a", "l", "(">>, <<"f", "(", "]">>, <<"f", "(", "'">>}

FieldTexts ==
    {p \o <<",">> \o q \o <<",">> \o a :
        p \in PatternPool, q \in PriorityPool, a \in AppPool}

\* exten =>
exten_arrow == <<"e", "x", "t", "e", "n", " ", "=", ">", " ">>

\* same =>
same_arrow == <<"s", "a", "m", "e", " ", "=", ">", " ">>

ExtensionLines ==
    {kw \o d : kw \in {exten_arrow, same_arrow},
               d \in SplitStrings \cup FieldTexts}

InitUnit ==
    /\ \/ pc = "call_balanced" /\ arg \in BalStrings
       \/ pc = "call_variable" /\ arg \in VarStrings
       \/ pc = "call_extension" /\ arg \in ExtensionLines
    /\ ret = -1
    /\ file = <<>>
    /\ li = 1
    /\ off = 0
    /\ errors = 0
    /\ warnings = 0
    /\ line_num = 1
    /\ current_context = <<>>
    /\ in_context = FALSE
    /\ diags = <<>>
    /\ summary = "none"
    /\ exit_status = -1
    /\ run = 1
    /\ first = NoResult

\* a checker returned r: its diagnostics carry state->line_num and each one
\* was counted in state->errors
Returned(r) ==
    /\ ret' = r.ret
    /\ diags' = diags \o TagLine(r.out, line_num)
    /\ errors' = errors + Len(r.out)
    /\ UNCHANGED <<file, li, off, warnings, line_num, current_context,
                   in_context, summary, exit_status, arg, run, first>>

CallCheckBalanced ==
    /\ pc = "call_balanced"
    /\ pc' = "balanced"
    /\ Returned(check_balanced(arg))

CallCheckVariableSyntax ==
    /\ pc = "call_variable"
    /\ pc' = "variable"
    /\ Returned(check_variable_syntax(arg))

CallParseExtension ==
    /\ pc = "call_extension"
    /\ pc' = "extension"
    /\ Returned(parse_extension(arg))

NextUnit ==
    CallCheckBalanced \/ CallCheckVariableSyntax \/ CallParseExtension

SpecUnit == InitUnit /\ [][NextUnit]_vars

(***************************************************************************)
(* Properties.                                                             *)
(***************************************************************************)
Done == pc = "done"

\* the diagnostics that the step from the current state to the next wrote
NewDiags == SubSeq(diags', Len(diags) + 1, Len(diags'))

Silent == errors' = errors /\ warnings' = warnings /\ diags' = diags

\* a non-blank, non-comment line is about to be read
ReadsDirective == MoreInput /\ ~is_comment_or_blank(CurLine)

HasArrow(str) == \E i \in 1..Len(str) : IsArrowAt(str, i)

HasEquals(str) == \E i \in 1..Len(str) : str[i] = "="

TokenIsKeyword(str) ==
    FirstToken(str) \in
        {kw_exten, kw_same, kw_include, kw_switch, kw_eswitch, kw_lswitch}

DiagAt(n, sev, msg) ==
    \E i \in 1..Len(diags) :
        diags[i].line = n /\ diags[i].sev = sev /\ diags[i].msg = msg

msg_unbalanced == "Unbalanced delimiters (parens=%d, brackets=%d, braces=%d)"
msg_unclosed_var == "Unclosed ${...} variable reference"
msg_unclosed_expr == "Unclosed $[...] expression"
msg_missing_arrow_exten == "Missing '=>' in extension definition"
msg_missing_arrow_include == "Missing '=>' in include statement"
msg_missing_arrow_switch == "Missing '=>' in switch statement"
msg_priority_low == "Priority must be >= 1"
msg_priority_invalid == "Invalid priority '%s' (must be number, 'n', or 'hint')"

MissingArrowMessages ==
    {msg_missing_arrow_exten, msg_missing_arrow_include,
     msg_missing_arrow_switch}

\* C1: once the input has been read to its end, validate_dialplan returns 1
\* if and only if error_count > 0 (and 0 otherwise), whatever warning_count
\* is, and the success message is printed only when both counts are 0.
C1_ExitStatusIffErrors ==
    Done =>
        /\ exit_status \in {0, 1}
        /\ exit_status = 1 <=> errors > 0
        /\ summary = "valid" <=> (errors = 0 /\ warnings = 0)
        /\ summary \in {"valid", "counts"}

\* C1: a run that ended with warnings only: exit status 0, no success message
C1_WarningsOnlyRun ==
    Done /\ errors = 0 /\ warnings > 0 /\ exit_status = 0 /\ summary = "counts"

\* C2: Scenario B ends with exactly one error, the unbalanced-delimiters
\* error (parens=1, brackets=0, braces=0) at line 2, no warning and no
\* diagnostic at line 3.
C2_ScenarioB ==
    (Done /\ file = ScenarioB) =>
        /\ errors = 1
        /\ warnings = 0
        /\ diags = <<[line |-> 2, sev |-> "error", msg |-> msg_unbalanced,
                      args |-> <<1, 0, 0>>, text |-> <<>>]>>

\* C3: Scenario E ends with exactly two errors, both at line 2: one unclosed
\* ${...} reference and one unbalanced-delimiters error with parens=1,
\* brackets=0, braces=0.
C3_ScenarioE ==
    (Done /\ file = ScenarioE) =>
        /\ errors = 2
        /\ Len(diags) = 2
        /\ DiagAt(2, "error", msg_unclosed_var)
        /\ \E i \in 1..Len(diags) :
               /\ diags[i].line = 2
               /\ diags[i].msg = msg_unbalanced
               /\ diags[i].args = <<1, 0, 0>>

\* a line "same => priority,App(args)": keyword same, an arrow, exactly one
\* comma outside parentheses and brackets after it, application balanced
SameTwoFieldLine(trimmed) ==
    /\ FirstToken(trimmed) = kw_same
    /\ HasArrow(trimmed)
    /\ LET data   == trim(From(trimmed, strstr_arrow(trimmed) + 2))
           commas == CommaScan(data, 1, 0, 0, 0)
       IN  /\ commas[1] # 0
           /\ commas[2] = 0
           /\ check_balanced(From(data, commas[1] + 1)).ret = 1
           /\ check_variable_syntax(data).ret = 1

\* C4: a continuation line of the two-field form same => priority,App(args)
\* with balanced arguments adds nothing to error_count or warning_count.
C4_SameTwoFieldsAccepted ==
    [][(ReadsDirective /\ SameTwoFieldLine(CurTrimmed)) => Silent]_vars

\* the text after the first "=>" of a line
PostArrow(trimmed) == trim(From(trimmed, strstr_arrow(trimmed) + 2))

UnclosedMessages(str) ==
    {d.msg : d \in {check_variable_syntax(str).out[i] :
                       i \in 1..Len(check_variable_syntax(str).out)}}

\* C5: on every exten/same line that contains "=>", each unclosed ${ or $[
\* anywhere in the text after "=>" is reported as an error of that line,
\* whatever else the line's validation found.
C5_ReferencesCheckedInWholeText ==
    [][(/\ ReadsDirective
        /\ TokenIsKeyword(CurTrimmed)
        /\ FirstToken(CurTrimmed) \in {kw_exten, kw_same}
        /\ HasArrow(CurTrimmed))
       => \A m \in UnclosedMessages(PostArrow(CurTrimmed)) :
              \E i \in 1..Len(NewDiags) :
                  /\ NewDiags[i].msg = m
                  /\ NewDiags[i].sev = "error"
                  /\ NewDiags[i].line = line_num']_vars

\* C6: an exten line whose application arguments balance in (), [] and {}
\* but hold an unmatched quote character produces no error.
C6_QuotesNotValidated ==
    (Done /\ file = QuoteInArguments) => (errors = 0 /\ diags = <<>>)

\* the decimal value of a string of digits
RECURSIVE DecimalValue(_)
DecimalValue(str) ==
    IF str = <<>> THEN 0
    ELSE 10 * DecimalValue(SubSeq(str, 1, Len(str) - 1))
             + DigitVal(str[Len(str)])

IsDecimal(str) == Len(str) > 0 /\ \A i \in 1..Len(str) : isdigit(str[i])

\* an integer literal: digits with an optional sign
IsInteger(str) ==
    \/ IsDecimal(str)
    \/ Len(str) > 1 /\ str[1] \in {"+", "-"} /\ IsDecimal(Tail(str))

IntegerValue(str) ==
    IF str[1] = "-" THEN 0 - DecimalValue(Tail(str))
    ELSE IF str[1] = "+" THEN DecimalValue(Tail(str))
    ELSE DecimalValue(str)

\* hint, n, or an integer >= 1 that ends the text or is followed by "("
PriorityIsValid(str) ==
    \/ str = str_hint
    \/ str = str_n
    \/ \E k \in 1..Len(str) :
          /\ IsInteger(SubSeq(str, 1, k))
          /\ IntegerValue(SubSeq(str, 1, k)) >= 1
          /\ (k = Len(str) \/ str[k + 1] = "(")

\* the priority field of an exten line, <<>> with the flag FALSE when the
\* line has no three fields
PriorityField(trimmed) ==
    LET data   == PostArrow(trimmed)
        commas == CommaScan(data, 1, 0, 0, 0)
    IN  IF commas[1] = 0 \/ commas[2] = 0 THEN <<FALSE, <<>>>>
        ELSE <<TRUE, trim(SubSeq(data, commas[1] + 1, commas[2] - 1))>>

C8_KeywordRulesBeforeAssignment ==
    [][(/\ ReadsDirective
        /\ TokenIsKeyword(CurTrimmed)
        /\ HasEquals(CurTrimmed)
        /\ ~HasArrow(CurTrimmed))
       => /\ errors' = errors + 1
          /\ Len(NewDiags) = 1
          /\ NewDiags[1].msg \in MissingArrowMessages]_vars

\* C8, amended: for a line that does not start with "[" and holds "=" but
\* no "=>": before the first context header it is accepted silently, also
\* when its first token is a keyword; after a context header a line whose
\* first token is a keyword yields exactly the missing-'=>' error.
C8_AssignmentBeforeKeywordRules ==
    [][(/\ ReadsDirective
        /\ ~IsContextLine(CurTrimmed)
        /\ HasEquals(CurTrimmed)
        /\ ~HasArrow(CurTrimmed))
       => IF ~in_context THEN Silent
          ELSE TokenIsKeyword(CurTrimmed) =>
                 /\ errors' = errors + 1
                 /\ warnings' = warnings
                 /\ Len(NewDiags) = 1
                 /\ NewDiags[1].sev = "error"
                 /\ NewDiags[1].line = line_num'
                 /\ NewDiags[1].msg \in MissingArrowMessages]_vars

\* C8: keyword lines without "=>" were read before any context header and
\* nothing was reported
C8_KeywordLinesAcceptedBeforeContext ==
    /\ Done
    /\ file = KeywordsBeforeContext
    /\ line_num = 3
    /\ ~in_context
    /\ errors = 0
    /\ warnings = 0

\* a line name=value: "=" and no "=>", first token no keyword
AssignmentLine(trimmed) ==
    /\ HasEquals(trimmed)
    /\ ~HasArrow(trimmed)
    /\ ~IsContextLine(trimmed)
    /\ ~TokenIsKeyword(trimmed)

\* C9: assignment lines that follow a [general] or [globals] header add
\* nothing to error_count or warning_count, and the README's example
\* dialplan validates with 0 errors and 0 warnings as "Syntax valid".
C9_AssignmentsInGeneralSection ==
    /\ [][(/\ ReadsDirective
           /\ in_context
           /\ current_context \in {SubSeq(ln_general, 2, 8),
                                   SubSeq(ln_globals, 2, 8)}
           /\ AssignmentLine(CurTrimmed))
          => Silent]_vars
    /\ []((Done /\ file = ReadmeExample) =>
             (errors = 0 /\ warnings = 0 /\ summary = "valid"))

\* C10 as stated: inside a context, a line whose first token only starts
\* with a keyword (sametime=1, extension_x=2, includes=3, switchboard=4) is
\* not given to a parser: it yields one warning and no error.
C10_KeywordsMatchedByToken ==
    [][(/\ ReadsDirective
        /\ in_context
        /\ ~IsContextLine(CurTrimmed)
        /\ ~TokenIsKeyword(CurTrimmed)
        /\ \E kw \in {kw_exten, kw_same, kw_include, kw_switch} :
               strncasecmp0(CurTrimmed, kw))
       => /\ errors' = errors
          /\ warnings' = warnings + 1
          /\ Len(NewDiags) = 1
          /\ NewDiags[1].sev = "warning"]_vars

\* the missing-'=>' message of the parser whose keyword starts the line
MissingArrowMessageFor(trimmed) ==
    IF strncasecmp0(trimmed, kw_exten) \/ strncasecmp0(trimmed, kw_same)
    THEN msg_missing_arrow_exten
    ELSE IF strncasecmp0(trimmed, kw_include) THEN msg_missing_arrow_include
    ELSE msg_missing_arrow_switch

\* C10, amended: keywords are matched as case-insensitive prefixes of the
\* trimmed line.  Inside a context a line that starts with exten, same,
\* include, switch, eswitch or lswitch is given to that keyword's parser
\* even when its first token is longer than the keyword: it never yields a
\* warning, and without "=>" it yields exactly that parser's missing-'=>'
\* error.
C10_KeywordsMatchedByPrefix ==
    [][(/\ ReadsDirective
        /\ in_context
        /\ ~IsContextLine(CurTrimmed)
        /\ \E kw \in {kw_exten, kw_same, kw_include, kw_switch, kw_eswitch,
                      kw_lswitch} : strncasecmp0(CurTrimmed, kw))
       => /\ warnings' = warnings
          /\ \A i \in 1..Len(NewDiags) : NewDiags[i].sev = "error"
          /\ ~HasArrow(CurTrimmed) =>
                /\ errors' = errors + 1
                /\ Len(NewDiags) = 1
                /\ NewDiags[1].line = line_num'
                /\ NewDiags[1].msg = MissingArrowMessageFor(CurTrimmed)]_vars

\* C10: the four lines that only start with a keyword were read inside a
\* context: four errors, no warning
C10_PrefixLinesParsed ==
    /\ Done
    /\ file = KeywordPrefixes
    /\ errors = 4
    /\ warnings = 0
    /\ DiagAt(2, "error", msg_missing_arrow_exten)
    /\ DiagAt(3, "error", msg_missing_arrow_exten)
    /\ DiagAt(4, "error", msg_missing_arrow_include)
    /\ DiagAt(5, "error", msg_missing_arrow_switch)


(***************************************************************************)
(* Delimiter texts, described without counters: a stack of the open        *)
(* delimiters and the quote that is open.                                  *)
(***************************************************************************)
IsOpener(c) == c \in {"(", "[", "{"}

IsCloser(c) == c \in {")", "]", "}"}

OpenerOf(c) == IF c = ")" THEN "(" ELSE IF c = "]" THEN "[" ELSE "{"

\* str from index p on is matched pairs and closed quoted spans of bracket
\* characters, given the open delimiters stack and the open quote ("" if none)
RECURSIVE WellNestedFrom(_, _, _, _)
WellNestedFrom(str, p, stack, quote) ==
    IF p > Len(str) THEN stack = <<>> /\ quote = ""
    ELSE LET c == str[p]
         IN  IF quote # ""
             THEN IF c = quote THEN WellNestedFrom(str, p + 1, stack, "")
                  ELSE /\ IsOpener(c) \/ IsCloser(c)
                       /\ WellNestedFrom(str, p + 1, stack, quote)
             ELSE IF c = "\"" \/ c = "'"
             THEN WellNestedFrom(str, p + 1, stack, c)
             ELSE IF IsOpener(c)
             THEN WellNestedFrom(str, p + 1, <<c>> \o stack, "")
             ELSE /\ IsCloser(c)
                  /\ stack # <<>>
                  /\ Head(stack) = OpenerOf(c)
                  /\ WellNestedFrom(str, p + 1, Tail(stack), "")

IsWellNested(str) == WellNestedFrom(str, 1, <<>>, "")

Without(str, i) == SubSeq(str, 1, i - 1) \o SubSeq(str, i + 1, Len(str))

\* the quote that is open after the first n characters of str, "" if none
RECURSIVE QuoteAfter(_, _)
QuoteAfter(str, n) ==
    IF n = 0 THEN ""
    ELSE LET q == QuoteAfter(str, n - 1)
             c == str[n]
         IN  IF q # "" THEN (IF c = q THEN "" ELSE q)
             ELSE IF c = "\"" \/ c = "'" THEN c ELSE ""

\* str is a well nested text with one more closing delimiter, outside quotes
OneUnmatchedCloser(str) ==
    \E i \in 1..Len(str) :
        /\ IsCloser(str[i])
        /\ QuoteAfter(str, i - 1) = ""
        /\ IsWellNested(Without(str, i))

RECURSIVE Depth(_, _, _, _)
Depth(str, n, open, close) ==
    IF n = 0 THEN 0
    ELSE LET d == Depth(str, n - 1, open, close)
         IN  IF d < 0 THEN -1
             ELSE IF str[n] = open THEN d + 1
             ELSE IF str[n] = close THEN d - 1
             ELSE d

\* str contains no unmatched open or close character
NoUnmatched(str, open, close) == Depth(str, Len(str), open, close) = 0

\* str is $ open X close with no unmatched open or close in X
IsClosedReference(str, open, close) ==
    /\ Len(str) >= 3
    /\ str[1] = "$"
    /\ str[2] = open
    /\ str[Len(str)] = close
    /\ NoUnmatched(SubSeq(str, 3, Len(str) - 1), open, close)

\* str is ${X with no } in X
IsOpenReference(str) ==
    /\ Len(str) >= 2
    /\ str[1] = "$"
    /\ str[2] = "{"
    /\ \A i \in 3..Len(str) : str[i] # "}"

\* C12: check_variable_syntax returns 1 without a diagnostic on ${X} and on
\* $[X] for every X with no unmatched brace (resp. bracket), and on every
\* text ${X with no } in X it returns 0 with exactly one diagnostic, the
\* unclosed-reference error, and one more error counted.
C12_ReferenceClosure ==
    pc = "variable" =>
        /\ IsClosedReference(arg, "{", "}") \/ IsClosedReference(arg, "[", "]")
               => ret = 1 /\ errors = 0 /\ diags = <<>>
        /\ IsOpenReference(arg) =>
               /\ ret = 0
               /\ errors = 1
               /\ Len(diags) = 1
               /\ diags[1].msg = "Unclosed ${...} variable reference"

\* an unclosed reference whose rest opens an expression: still one diagnostic
C12_OpenReferenceHoldingExpression ==
    /\ pc = "variable"
    /\ arg = <<"$", "{", "a", "$", "[">>
    /\ IsOpenReference(arg)
    /\ ret = 0
    /\ Len(diags) = 1

\* C13: Scenario A, the file "[default]" / "exten => s,1,NoOp()", never has
\* an error or a warning recorded, and its run ends after two lines with no
\* diagnostic, the success summary and exit status 0.
C13_ScenarioA ==
    file = ScenarioA =>
        /\ errors = 0
        /\ warnings = 0
        /\ diags = <<>>
        /\ Done => line_num = 2 /\ summary = "valid" /\ exit_status = 0

C13_ScenarioASucceeds ==
    /\ Done
    /\ file = ScenarioA
    /\ line_num = 2
    /\ current_context = <<"d", "e", "f", "a", "u", "l", "t">>
    /\ exit_status = 0

\* the trimmed line starts with exten or with same, in any case
IsExtenOrSame(trimmed) ==
    strncasecmp0(trimmed, kw_exten) \/ strncasecmp0(trimmed, kw_same)

\* C14: inside a context, reading an exten or same line that contains no
\* "=>" writes exactly one diagnostic, the error "Missing '=>' in extension
\* definition" with that line's number, counts one error and no warning:
\* nothing else of the line is checked.
C14_MissingArrowAborts ==
    [][(/\ ReadsDirective
        /\ in_context
        /\ IsExtenOrSame(CurTrimmed)
        /\ ~HasArrow(CurLine))
       => /\ errors' = errors + 1
          /\ warnings' = warnings
          /\ NewDiags = <<[line |-> line_num + 1, sev |-> "error",
                           msg |-> msg_missing_arrow_exten, args |-> <<>>,
                           text |-> <<>>]>>]_vars

\* Scenario D ended with its one error, at line 2
C14_ScenarioD ==
    /\ Done
    /\ file = ScenarioD
    /\ errors = 1
    /\ warnings = 0
    /\ Len(diags) = 1
    /\ DiagAt(2, "error", msg_missing_arrow_exten)

msg_malformed_context == "Malformed context (missing ']')"

\* the trimmed line starts with "[" and holds no "]"
IsOpenHeader(trimmed) ==
    /\ Len(trimmed) > 0
    /\ trimmed[1] = "["
    /\ \A i \in 1..Len(trimmed) : trimmed[i] # "]"

\* C15: reading a line that starts with "[" and holds no "]" writes exactly
\* one diagnostic, the error "Malformed context (missing ']')" with that
\* line's number, and the scan goes on; Scenario F, where a well-formed
\* exten line follows, ends after both lines with that one error and
\* nothing else.
C15_MalformedContext ==
    /\ [](Done /\ file = ScenarioF =>
            /\ line_num = 2
            /\ errors = 1
            /\ warnings = 0
            /\ Len(diags) = 1
            /\ DiagAt(1, "error", msg_malformed_context))
    /\ [][(ReadsDirective /\ IsOpenHeader(CurTrimmed))
          => /\ errors' = errors + 1
             /\ warnings' = warnings
             /\ NewDiags = <<[line |-> line_num + 1, sev |-> "error",
                              msg |-> msg_malformed_context, args |-> <<>>,
                              text |-> <<>>]>>
             /\ pc' = "scan"
             /\ li' = li + 1]_vars

C15_ScenarioF ==
    /\ Done
    /\ file = ScenarioF
    /\ line_num = 2
    /\ Len(diags) = 1
    /\ DiagAt(1, "error", msg_malformed_context)
    /\ exit_status = 1

\* no rule of the loop body applies to the trimmed line: it is no context
\* header, no assignment of the part before the first header, and it starts
\* with no keyword
MatchesNoRule(trimmed) ==
    /\ Len(trimmed) > 0
    /\ trimmed[1] # "["
    /\ ~(~in_context /\ HasEquals(trimmed) /\ ~HasArrow(trimmed))
    /\ \A kw \in {kw_exten, kw_same, kw_include, kw_switch, kw_eswitch,
                  kw_lswitch} : ~strncasecmp0(trimmed, kw)

C17_NoLineStopsTheScan ==
    /\ [](pc = "scan" =>
            \/ li = Len(file) + 1
            \/ /\ MoreInput
               /\ LineClass \in {"skip", "context", "assignment", "extension",
                                 "include", "switch", "unknown", "ignored"})
    /\ [][MoreInput => /\ line_num' = line_num + 1
                       /\ \/ li' = li + 1 /\ off' = 0
                          \/ li' = li /\ off' > off
                       /\ pc' = "scan"]_vars
    /\ (pc = "scan") ~> (/\ Done
                         /\ li = Len(file) + 1
                         /\ line_num >= Len(file)
                         /\ summary # "none")

\* Scenario B was read to its end although its second line had an error
C17_ScannedPastErrors ==
    /\ Done
    /\ file = ScenarioB
    /\ DiagAt(2, "error", msg_unbalanced)
    /\ \E i \in 1..Len(diags) : diags[i].line = 3
    /\ line_num = 3
    /\ summary = "counts"

\* the diagnostics of severity sev written so far
Emitted(sev) == {i \in 1..Len(diags) : diags[i].sev = sev}

StartsWithBracket(trimmed) == Len(trimmed) > 0 /\ trimmed[1] = "["

\* C20: in_context is false when a run starts; while the file is scanned and
\* at its end the flag is true exactly if a line already read starts, once
\* trimmed, with "[", whether that header parsed or not; a step that reads a
\* line leaves the flag true exactly if it was true or this line starts with
\* "["; and no step resets the flag.
C20_InContextFlag ==
    /\ [](pc = "open" => ~in_context)
    /\ [](pc \in {"scan", "done"} =>
            (in_context <=>
                \E k \in 1..(li - 1) : StartsWithBracket(trim(file[k]))))
    /\ [][/\ in_context => in_context'
          /\ MoreInput =>
                (in_context' <=>
                    in_context \/ StartsWithBracket(CurTrimmed))]_vars

\* after "[test", which is no valid header, the flag is set and stays set
C20_SetByFailedHeader ==
    /\ Done
    /\ file = ScenarioF
    /\ in_context
    /\ current_context = <<>>
    /\ DiagAt(1, "error", msg_malformed_context)

(***************************************************************************)
(* Context names, read off the text of a header.                           *)
(***************************************************************************)
\* str without the white space at its two ends
Stripped(str) ==
    LET ns == {i \in 1..Len(str) : ~isspace(str[i])}
    IN  IF ns = {} THEN <<>>
        ELSE SubSeq(str, CHOOSE i \in ns : \A j \in ns : i <= j,
                         CHOOSE i \in ns : \A j \in ns : i >= j)

\* the text between the "[" that starts trimmed and its first "]", stripped
HeaderName(trimmed) ==
    LET closers == {i \in 1..Len(trimmed) : trimmed[i] = "]"}
        close   == CHOOSE i \in closers : \A j \in closers : i <= j
    IN  Stripped(SubSeq(trimmed, 2, close - 1))

IsGoodHeader(trimmed) ==
    /\ StartsWithBracket(trimmed)
    /\ \E i \in 1..Len(trimmed) : trimmed[i] = "]"
    /\ HeaderName(trimmed) # <<>>

\* the name that the first n lines of file leave as the current context
RECURSIVE ContextAfter(_)
ContextAfter(n) ==
    IF n = 0 THEN <<>>
    ELSE LET trimmed == Stripped(file[n])
         IN  IF IsGoodHeader(trimmed)
             THEN LET name == HeaderName(trimmed)
                  IN  SubSeq(name, 1, Min(Len(name), MAX_VAR_NAME - 1))
             ELSE ContextAfter(n - 1)

\* every line of file fits into the line buffer together with its newline
LinesFit == \A k \in 1..Len(file) : Len(file[k]) + 1 <= MAX_LINE - 1

\* C21: after any sequence of lines current_context is the trimmed text
\* between "[" and the first "]" of the last header that parsed, cut to
\* MAX_VAR_NAME - 1 characters (empty if none parsed); a header without "]"
\* or with an empty name writes exactly one error and leaves the name as it
\* was; and no other line changes the name.
C21_CurrentContextName ==
    /\ [](pc \in {"scan", "done"} /\ LinesFit =>
            current_context = ContextAfter(li - 1))
    /\ [][/\ (/\ ReadsDirective
              /\ StartsWithBracket(CurTrimmed)
              /\ ~IsGoodHeader(CurTrimmed))
             => /\ current_context' = current_context
                /\ errors' = errors + 1
                /\ warnings' = warnings
                /\ Len(NewDiags) = 1
          /\ ~(ReadsDirective /\ StartsWithBracket(CurTrimmed))
             => current_context' = current_context]_vars

\* a name of MAX_VAR_NAME + 5 characters was stored cut to MAX_VAR_NAME - 1,
\* and the empty header after it left it there
C21_LongNameCutAndKept ==
    /\ Done
    /\ file = LongContextName
    /\ Len(current_context) = MAX_VAR_NAME - 1
    /\ errors = 1
    /\ DiagAt(3, "error", "Empty context name")

\* C22: the line counter advances by one per line of the file, whatever the
\* line's length: a step that reads from line li of the file leaves
\* line_num = li and writes its diagnostics with the number li.
C22_LineNumbersArePhysical ==
    [][MoreInput => /\ line_num' = li
                    /\ \A i \in 1..Len(NewDiags) : NewDiags[i].line = li]_vars

(***************************************************************************)
(* The fields of an extension line, read off its text.                     *)
(***************************************************************************)
\* the text after the "=>" of a line given to parse_extension on its own
DataOf(line) ==
    Stripped(SubSeq(line,
                    IF SubSeq(line, 1, Len(kw_exten)) = kw_exten
                    THEN Len(exten_arrow) + 1 ELSE Len(same_arrow) + 1,
                    Len(line)))

\* the open characters minus the close characters before index i of data
Net(data, i, open, close) ==
    Cardinality({j \in 1..(i - 1) : data[j] = open})
        - Cardinality({j \in 1..(i - 1) : data[j] = close})

\* the commas of data met while both depths are 0
Separators(data) ==
    {i \in 1..Len(data) :
        /\ data[i] = ","
        /\ Net(data, i, "(", ")") = 0
        /\ Net(data, i, "[", "]") = 0}

Least(S) == CHOOSE i \in S : \A j \in S : i <= j

msg_format ==
    "Extension must have format: exten => pattern,priority,app(args)"

RECURSIVE QuoteOpenAfter(_, _)
QuoteOpenAfter(str, n) ==
    IF n = 0 THEN ""
    ELSE LET q == QuoteOpenAfter(str, n - 1)
             c == str[n]
         IN  IF q = "" THEN (IF c \in {"'", "\""} THEN c ELSE "")
             ELSE IF c = q /\ str[n - 1] # "\\" THEN "" ELSE q

\* among the first n characters of str, those equal to open minus those
\* equal to close, characters inside quoted spans left out
NetOutside(str, n, open, close) ==
    Cardinality({j \in 1..n :
                    QuoteOpenAfter(str, j - 1) = "" /\ str[j] = open})
        - Cardinality({j \in 1..n :
                    QuoteOpenAfter(str, j - 1) = "" /\ str[j] = close})

DelimiterKinds == {<<"(", ")">>, <<"[", "]">>, <<"{", "}">>}

\* some closing delimiter outside quotes has no opening one of its kind
\* before it
EverNegative(str) ==
    \E n \in 1..Len(str) : \E k \in DelimiterKinds :
        NetOutside(str, n, k[1], k[2]) < 0

CountersBalanced(str) ==
    /\ ~EverNegative(str)
    /\ \A k \in DelimiterKinds : NetOutside(str, Len(str), k[1], k[2]) = 0
    /\ QuoteOpenAfter(str, Len(str)) = ""

msg_too_many_closing == "Unbalanced delimiters (too many closing)"

msg_unclosed_quote == "Unclosed quote"

CloserOf(c) == IF c = "{" THEN "}" ELSE "]"

\* a reference opens at index p of str
OpensReference(str, p) ==
    /\ p + 1 <= Len(str)
    /\ str[p] = "$"
    /\ str[p + 1] \in {"{", "["}

\* a reference opens at index p of str and nothing closes it
UnterminatedAt(str, p) ==
    /\ OpensReference(str, p)
    /\ \A n \in (p + 2)..Len(str) :
           1 + Cardinality({j \in (p + 2)..n : str[j] = str[p + 1]})
             - Cardinality({j \in (p + 2)..n : str[j] = CloserOf(str[p + 1])})
             > 0

Unterminated(str) == {p \in 1..Len(str) : UnterminatedAt(str, p)}

\* C26, as stated: a text that contains two unterminated references yields
\* two diagnostics.
C26_OneDiagnosticPerUnterminated ==
    pc = "variable" /\ Cardinality(Unterminated(arg)) = 2 =>
        Len(diags) = 2 /\ errors = 2

\* C26, amended: check_variable_syntax goes on after a reference, closed or
\* not, behind the span it consumed, and an unterminated reference consumes
\* the rest of the text.  So a call writes at most one diagnostic, counted
\* once, and returns 0 exactly if it wrote one; a text in which no reference
\* opens gets none; and a text whose first "$" that opens a reference opens
\* an unterminated one gets exactly the diagnostic of that reference,
\* whatever unterminated references follow inside it.
C26_FirstUnterminatedOnly ==
    pc = "variable" =>
        /\ Len(diags) <= 1
        /\ errors = Len(diags)
        /\ ret = 0 <=> Len(diags) = 1
        /\ (\A p \in 1..Len(arg) : ~OpensReference(arg, p)) => diags = <<>>
        /\ \A p \in 1..Len(arg) :
               (/\ UnterminatedAt(arg, p)
                /\ \A j \in 1..(p - 1) : ~OpensReference(arg, j))
               => /\ Len(diags) = 1
                  /\ diags[1].msg = IF arg[p + 1] = "{" THEN msg_unclosed_var
                                    ELSE msg_unclosed_expr

\* $[${ holds two unterminated references and got one diagnostic, for the
\* first
C26_TwoUnterminatedOneDiagnostic ==
    /\ pc = "variable"
    /\ arg = <<"$", "[", "$", "{">>
    /\ Unterminated(arg) = {1, 3}
    /\ Len(diags) = 1
    /\ diags[1].msg = msg_unclosed_expr
    /\ errors = 1

\* the three fields of data, which has two separators at least
FieldsOf(data) ==
    LET sep1 == Least(Separators(data))
        sep2 == Least(Separators(data) \ {sep1})
    IN  [pattern  |-> Stripped(SubSeq(data, 1, sep1 - 1)),
         priority |-> Stripped(SubSeq(data, sep1 + 1, sep2 - 1)),
         app      |-> Stripped(SubSeq(data, sep2 + 1, Len(data)))]

IsSameLine(line) == SubSeq(line, 1, Len(kw_same)) = kw_same

BalanceMessages == {msg_too_many_closing, msg_unclosed_quote, msg_unbalanced}

HasOpenParen(str) == \E i \in 1..Len(str) : str[i] = "("

msg_empty_include == "Empty context in include statement"

\* the text behind the first "=>" of line, without the white space around it
AfterArrow(line) ==
    LET arrows == {i \in 1..Len(line) : IsArrowAt(line, i)}
    IN  Stripped(SubSeq(line, Least(arrows) + 2, Len(line)))

\* the one error that a step wrote for the line it read
OneError(msg) ==
    /\ errors' = errors + 1
    /\ warnings' = warnings
    /\ NewDiags = <<[line |-> line_num + 1, sev |-> "error", msg |-> msg,
                     args |-> <<>>, text |-> <<>>]>>

\* the line about to be read is not taken for an assignment: a context was
\* opened, or the line holds "=>", or it holds no "="
NotAssignment ==
    in_context \/ HasArrow(CurTrimmed) \/ ~HasEquals(CurTrimmed)

\* what reading an include line does: one error without "=>", one error
\* with nothing behind "=>", nothing otherwise
IncludeOutcome ==
    /\ ~HasArrow(CurTrimmed) => OneError(msg_missing_arrow_include)
    /\ HasArrow(CurTrimmed) /\ AfterArrow(CurTrimmed) = <<>>
           => OneError(msg_empty_include)
    /\ HasArrow(CurTrimmed) /\ AfterArrow(CurTrimmed) # <<>> => Silent

\* what reading a switch line does: one error exactly if it holds no "=>"
SwitchOutcome ==
    /\ ~HasArrow(CurTrimmed) => OneError(msg_missing_arrow_switch)
    /\ HasArrow(CurTrimmed) => Silent

\* C28 as stated, for every line that starts with include, switch, eswitch
\* or lswitch, wherever it stands in the file.
C28_IncludeSwitchAnywhere ==
    [][/\ ReadsDirective /\ IsIncludeLine(CurTrimmed) => IncludeOutcome
       /\ ReadsDirective /\ IsSwitchLine(CurTrimmed) => SwitchOutcome]_vars

\* C28: a line that starts with include and is not taken for an assignment
\* (a context was opened, or the line holds "=>" or no "=") yields exactly
\* one error if it holds no "=>" ("Missing '=>' in include statement") or
\* if the trimmed text behind "=>" is empty ("Empty context in include
\* statement"), and no diagnostic otherwise; such a line starting with
\* switch, eswitch or lswitch yields exactly one error ("Missing '=>' in
\* switch statement") exactly if it holds no "=>"; a line of either kind
\* read before any context header that holds "=" and no "=>" yields nothing;
\* and none of these lines changes current_context or in_context.
C28_IncludeAndSwitchLines ==
    [][/\ ReadsDirective /\ IsIncludeLine(CurTrimmed) /\ NotAssignment
           => IncludeOutcome
       /\ ReadsDirective /\ IsSwitchLine(CurTrimmed) /\ NotAssignment
           => SwitchOutcome
       /\ (/\ ReadsDirective
           /\ (IsIncludeLine(CurTrimmed) \/ IsSwitchLine(CurTrimmed))
           /\ ~NotAssignment) => Silent
       /\ ReadsDirective
           /\ (IsIncludeLine(CurTrimmed) \/ IsSwitchLine(CurTrimmed))
           => /\ current_context' = current_context
              /\ in_context' = in_context]_vars

\* include => and lswitch x, read before any header: one error each, no
\* context entered
C28_EmptyIncludeAndBareSwitch ==
    /\ Done
    /\ file = <<ln_include_empty, ln_lswitch_noarrow>>
    /\ errors = 2
    /\ warnings = 0
    /\ DiagAt(1, "error", msg_empty_include)
    /\ DiagAt(2, "error", msg_missing_arrow_switch)
    /\ ~in_context
    /\ current_context = <<>>

(***************************************************************************)
(* The priority of same lines.                                             *)
(***************************************************************************)
PriorityMessages == {msg_priority_low, msg_priority_invalid}

\* priority fields that strtol reads as 0 up to their end
LowPriorities == {<<>>, <<"0">>}

\* priority fields in which strtol reads no digit and stops at a letter
LetterPriorities == {<<"a">>, <<"a", "a">>, <<"a", "b", "c">>}

ReadOffsets(k) ==
    {(MAX_LINE - 1) * j : j \in 0..(Len(file[k]) \div (MAX_LINE - 1))}

\* what the call of fgets at offset o of line k returned, newline removed
LineReadAt(k, o) ==
    LET text == file[k] \o <<NL>>
    IN  StripNewline(SubSeq(text, o + 1,
                            Min(Len(text), o + MAX_LINE - 1)))

\* the lines read so far that are neither blank nor a comment
DirectivesRead ==
    UNION {{<<k, o>> : o \in {x \in ReadOffsets(k) :
                                 /\ k < li \/ (k = li /\ x < off)
                                 /\ ~is_comment_or_blank(LineReadAt(k, x))}}
           : k \in 1..Len(file)}

====
